---- MODULE Spec2Model ----
(***************************************************************************)
(* Model of the "!cat calc" parsing core of the chien-poo Discord bot:     *)
(* parseCalcInput, parseSide, parseField, detectNatureFromEVs and          *)
(* getNatureName.  Text is a sequence of one-character strings; every      *)
(* regular expression of the source is written as a syntax tree and run by *)
(* a backtracking matcher that yields the matches in JavaScript's priority *)
(* order (greedy before lazy, alternatives left to right).                 *)
(***************************************************************************)
EXTENDS Integers, Sequences, FiniteSets, TLC

VARIABLES words, pc, parsed, setsCache, timers, now, calls

\* setsCache, the pending eviction timers, the clock (in minutes) and the
\* fetchSetsData invocations.
cacheVars == <<setsCache, timers, now, calls>>

vars == <<words, pc, parsed, setsCache, timers, now, calls>>

(***************************************************************************)
(* Characters.                                                             *)
(***************************************************************************)
Digits == {"0", "1", "2", "3", "4", "5", "6", "7", "8", "9"}

UpperToLower ==
  [c \in {"A", "B", "C", "D", "E", "F", "G", "H", "I", "J", "K", "L", "M",
          "N", "O", "P", "Q", "R", "S", "T", "U", "V", "W", "X", "Y", "Z"} |->
     CASE c = "A" -> "a" [] c = "B" -> "b" [] c = "C" -> "c" [] c = "D" -> "d"
       [] c = "E" -> "e" [] c = "F" -> "f" [] c = "G" -> "g" [] c = "H" -> "h"
       [] c = "I" -> "i" [] c = "J" -> "j" [] c = "K" -> "k" [] c = "L" -> "l"
       [] c = "M" -> "m" [] c = "N" -> "n" [] c = "O" -> "o" [] c = "P" -> "p"
       [] c = "Q" -> "q" [] c = "R" -> "r" [] c = "S" -> "s" [] c = "T" -> "t"
       [] c = "U" -> "u" [] c = "V" -> "v" [] c = "W" -> "w" [] c = "X" -> "x"
       [] c = "Y" -> "y" [] c = "Z" -> "z"]

LowerLetters == {UpperToLower[c] : c \in DOMAIN UpperToLower}

\* String.prototype.toLowerCase on one character.
toLowerCase(c) == IF c \in DOMAIN UpperToLower THEN UpperToLower[c] ELSE c

\* toLowerCase on a text.
LowerText(s) == [i \in 1..Len(s) |-> toLowerCase(s[i])]

\* \s : the white space of the model's alphabet (space, tab, line feed).
WhiteSpace == {" ", "\t", "\n"}

\* "." without the s flag: any character but a line terminator.
LineTerminators == {"\n"}

\* \w : letters, digits and underscore (decides \b).
IsWordChar(c) ==
  c \in DOMAIN UpperToLower \/ c \in LowerLetters \/ c \in Digits \/ c = "_"

(***************************************************************************)
(* Regular expressions as syntax trees.                                    *)
(***************************************************************************)
Cls(cs)     == [k |-> "cls", set |-> cs, neg |-> FALSE] \* [...] , \d , \s
NotCls(cs)  == [k |-> "cls", set |-> cs, neg |-> TRUE]  \* [^...] , .
Lit(w)      == [k |-> "lit", w |-> w]                   \* literal text
Cat(rs)     == [k |-> "seq", rs |-> rs]                 \* r1 r2 ...
Alt(rs)     == [k |-> "alt", rs |-> rs]                 \* r1 | r2 | ...
Opt(r)      == [k |-> "opt", r |-> r]                   \* r?   (greedy)
Star(c)     == [k |-> "star", c |-> c]                  \* c*   (greedy, c a class)
Plus(c)     == [k |-> "plus", c |-> c]                  \* c+   (greedy, c a class)
PlusLazy(c) == [k |-> "plusLazy", c |-> c]              \* c+?  (lazy, c a class)
Grp(n, r)   == [k |-> "grp", n |-> n, r |-> r]          \* capturing group n
WordB       == [k |-> "wb"]                             \* \b

Dg  == Cls(Digits)                   \* \d
Ws  == Cls(WhiteSpace)               \* \s
Dot == NotCls(LineTerminators)       \* .
Sign == Cls({"+", "-"})              \* [+-]

\* Number of capture slots a match carries (the largest group count is 4).
NumGroups == 4

NoCaps == [n \in 1..NumGroups |-> <<0, 0>>]

InCls(c, ch) == IF c.neg THEN ch \notin c.set ELSE ch \in c.set

\* Does literal w stand at position i of s (case folded when ci)?
LitAt(w, ci, s, i) ==
  /\ i + Len(w) - 1 <= Len(s)
  /\ \A j \in 1..Len(w) :
       IF ci THEN toLowerCase(s[i + j - 1]) = toLowerCase(w[j])
             ELSE s[i + j - 1] = w[j]

\* The least element of a non-empty set of integers.
Least(ns) == CHOOSE x \in ns : \A y \in ns : x <= y

\* The first position from i on whose character is not of class c (the end
\* of the text counts as one), given the set of such positions.
RunEnd(s, stops) == IF stops = {} THEN Len(s) + 1 ELSE Least(stops)

\* Length of the longest run of class-c characters of s starting at i.
RunLen(c, s, i) ==
  IF i > Len(s) \/ ~InCls(c, s[i]) THEN 0
  ELSE RunEnd(s, {j \in (i + 1)..Len(s) : ~InCls(c, s[j])}) - i

\* \b at position i: exactly one of the characters around it is a word character.
AtWordBoundary(s, i) ==
  LET before == i > 1 /\ i - 1 <= Len(s) /\ IsWordChar(s[i - 1])
      after  == i <= Len(s) /\ IsWordChar(s[i])
  IN before # after

(***************************************************************************)
(* The matcher.  Run(r, ci, s, st) is the sequence of match states         *)
(* [pos, cap] that r can reach from state st on text s, in the order a     *)
(* backtracking engine tries them; its head is the match the engine takes. *)
(***************************************************************************)
RECURSIVE Run(_, _, _, _)
RECURSIVE RunAll(_, _, _, _, _, _)
RECURSIVE RunSeq(_, _, _, _, _)
RECURSIVE RunAlt(_, _, _, _, _)

\* r run from each of the states sts[lo..hi], results in the order of sts.
RunAll(r, ci, s, sts, lo, hi) ==
  IF lo > hi THEN <<>>
  ELSE IF lo = hi THEN Run(r, ci, s, sts[lo])
  ELSE RunAll(r, ci, s, sts, lo, (lo + hi) \div 2)
         \o RunAll(r, ci, s, sts, (lo + hi) \div 2 + 1, hi)

RunSeq(rs, j, ci, s, sts) ==
  IF j > Len(rs) \/ sts = <<>> THEN sts
  ELSE RunSeq(rs, j + 1, ci, s, RunAll(rs[j], ci, s, sts, 1, Len(sts)))

RunAlt(rs, j, ci, s, st) ==
  IF j > Len(rs) THEN <<>>
  ELSE Run(rs[j], ci, s, st) \o RunAlt(rs, j + 1, ci, s, st)

\* The states of a greedy run of a class: longest first, down to `least`.
GreedyStates(st, m, least) ==
  [j \in 1..(m + 1 - least) |-> [st EXCEPT !.pos = @ + (m + 1 - j)]]

\* The states of a lazy run of a class: shortest first, from one character.
LazyStates(st, m) == [j \in 1..m |-> [st EXCEPT !.pos = @ + j]]

\* Capture group n spans from `start` to wherever the group's body ended.
Captured(n, start, rs) ==
  [j \in 1..Len(rs) |-> [rs[j] EXCEPT !.cap[n] = <<start, rs[j].pos>>]]

Run(r, ci, s, st) ==
  CASE r.k = "cls" ->
         IF st.pos <= Len(s) /\ InCls(r, s[st.pos])
         THEN <<[st EXCEPT !.pos = @ + 1]>> ELSE <<>>
    [] r.k = "lit" ->
         IF LitAt(r.w, ci, s, st.pos)
         THEN <<[st EXCEPT !.pos = @ + Len(r.w)]>> ELSE <<>>
    [] r.k = "wb" -> IF AtWordBoundary(s, st.pos) THEN <<st>> ELSE <<>>
    [] r.k = "seq" -> RunSeq(r.rs, 1, ci, s, <<st>>)
    [] r.k = "alt" -> RunAlt(r.rs, 1, ci, s, st)
    [] r.k = "opt" -> Run(r.r, ci, s, st) \o <<st>>
    [] r.k = "star" -> GreedyStates(st, RunLen(r.c, s, st.pos), 0)
    [] r.k = "plus" -> GreedyStates(st, RunLen(r.c, s, st.pos), 1)
    [] r.k = "plusLazy" -> LazyStates(st, RunLen(r.c, s, st.pos))
    [] r.k = "grp" -> Captured(r.n, st.pos, Run(r.r, ci, s, st))

NoMatch == [found |-> FALSE]

\* The first of the match states rs as a match that started at i.
FirstMatch(i, rs) ==
  IF rs = <<>> THEN NoMatch
  ELSE [found |-> TRUE, start |-> i, end |-> rs[1].pos, cap |-> rs[1].cap]

\* The match of r that starts at position i, if any: [found, start, end, cap].
MatchAt(r, ci, s, i) == FirstMatch(i, Run(r, ci, s, [pos |-> i, cap |-> NoCaps]))

\* The leftmost match among those starting at positions lo..hi: positions are
\* tried left to right and the first one where a match begins wins.
RECURSIVE LeftmostMatch(_, _, _, _, _)
RECURSIVE FirstFound(_, _, _, _, _, _)
LeftmostMatch(r, ci, s, lo, hi) ==
  IF lo > hi THEN NoMatch
  ELSE IF lo = hi THEN MatchAt(r, ci, s, lo)
  ELSE FirstFound(LeftmostMatch(r, ci, s, lo, (lo + hi) \div 2),
                  r, ci, s, ((lo + hi) \div 2) + 1, hi)

FirstFound(left, r, ci, s, lo, hi) ==
  IF left.found THEN left ELSE LeftmostMatch(r, ci, s, lo, hi)

\* RegExp.prototype.exec from lastIndex `from`: the leftmost match.
Exec(r, ci, s, from) == LeftmostMatch(r, ci, s, from, Len(s) + 1)

\* str.match(re) without the g flag.
Match(r, ci, s) == Exec(r, ci, s, 1)

\* After a match: an empty match advances lastIndex by one.
NextIndex(m) == IF m.end = m.start THEN m.end + 1 ELSE m.end

\* str.matchAll(re) with the g flag: the successive matches, left to right.
RECURSIVE MatchAllFrom(_, _, _, _)
RECURSIVE MatchAllStep(_, _, _, _)

MatchAllStep(r, ci, s, m) ==
  IF m.found THEN <<m>> \o MatchAllFrom(r, ci, s, NextIndex(m)) ELSE <<>>

MatchAllFrom(r, ci, s, from) == MatchAllStep(r, ci, s, Exec(r, ci, s, from))

MatchAll(r, ci, s) == MatchAllFrom(r, ci, s, 1)

\* s.slice(a - 1, b - 1): the characters at positions a .. b-1.
Slice(s, a, b) == SubSeq(s, a, b - 1)

\* Text of capture group n of match m; Undefined when the group took no part.
Undefined == [some |-> FALSE]
Some(v) == [some |-> TRUE, val |-> v]

Group(s, m, n) ==
  IF m.cap[n] = <<0, 0>> THEN Undefined
  ELSE Some(Slice(s, m.cap[n][1], m.cap[n][2]))

\* str.replace(re, rep) with the g flag: every match, found in the original
\* text left to right, is replaced by rep; the result is not scanned again.
RECURSIVE ReplaceFrom(_, _, _, _, _)
RECURSIVE ReplaceStep(_, _, _, _, _, _)

ReplaceStep(r, ci, s, rep, from, m) ==
  IF ~m.found THEN Slice(s, from, Len(s) + 1)
  ELSE IF m.end = m.start
       THEN Slice(s, from, m.start) \o rep
              \o (IF m.start <= Len(s) THEN <<s[m.start]>> ELSE <<>>)
              \o ReplaceFrom(r, ci, s, rep, m.start + 1)
       ELSE Slice(s, from, m.start) \o rep \o ReplaceFrom(r, ci, s, rep, m.end)

ReplaceFrom(r, ci, s, rep, from) ==
  ReplaceStep(r, ci, s, rep, from, Exec(r, ci, s, from))

ReplaceAll(r, ci, s, rep) == ReplaceFrom(r, ci, s, rep, 1)

\* String.prototype.trim
RECURSIVE TrimLeft(_)
TrimLeft(s) ==
  IF s # <<>> /\ Head(s) \in WhiteSpace THEN TrimLeft(Tail(s)) ELSE s

RECURSIVE TrimRight(_)
TrimRight(s) ==
  IF s # <<>> /\ s[Len(s)] \in WhiteSpace
  THEN TrimRight(SubSeq(s, 1, Len(s) - 1)) ELSE s

trim(s) == TrimRight(TrimLeft(s))

\* parseInt on a text of the form [+-]?\d+ (the only texts the parser hands it).
DigitValue(c) ==
  CASE c = "0" -> 0 [] c = "1" -> 1 [] c = "2" -> 2 [] c = "3" -> 3
    [] c = "4" -> 4 [] c = "5" -> 5 [] c = "6" -> 6 [] c = "7" -> 7
    [] c = "8" -> 8 [] c = "9" -> 9

RECURSIVE DigitsValue(_, _)
DigitsValue(s, acc) ==
  IF s = <<>> THEN acc ELSE DigitsValue(Tail(s), 10 * acc + DigitValue(Head(s)))

parseInt(s) ==
  IF s[1] = "-" THEN 0 - DigitsValue(Tail(s), 0)
  ELSE IF s[1] = "+" THEN DigitsValue(Tail(s), 0)
  ELSE DigitsValue(s, 0)

\* str.split(sep) on a one-character separator: the pieces, in order.
RECURSIVE SplitFrom(_, _, _)
RECURSIVE SplitAt(_, _, _, _)

SplitAt(s, sep, from, seps) ==
  IF seps = {} THEN <<Slice(s, from, Len(s) + 1)>>
  ELSE <<Slice(s, from, Least(seps))>> \o SplitFrom(s, sep, Least(seps) + 1)

SplitFrom(s, sep, from) ==
  SplitAt(s, sep, from, {i \in from..Len(s) : s[i] = sep})

split(s, sep) == SplitFrom(s, sep, 1)

(***************************************************************************)
(* statMap, detectNatureFromEVs, getNatureName                             *)
(***************************************************************************)
\* (HP|Atk|Def|SpA|SpD|Spe)
StatAlt ==
  Alt(<<Lit(<<"H", "P">>), Lit(<<"A", "t", "k">>), Lit(<<"D", "e", "f">>),
        Lit(<<"S", "p", "A">>), Lit(<<"S", "p", "D">>), Lit(<<"S", "p", "e">>)>>)

StatKeys == {"hp", "atk", "def", "spa", "spd", "spe"}

statMap(stat) ==
  LET l == LowerText(stat)
  IN CASE l = <<"h", "p">> -> "hp"
       [] l = <<"a", "t", "k">> -> "atk"
       [] l = <<"d", "e", "f">> -> "def"
       [] l = <<"s", "p", "a">> -> "spa"
       [] l = <<"s", "p", "d">> -> "spd"
       [] l = <<"s", "p", "e">> -> "spe"

\* JavaScript's null, for values that are otherwise TLA+ strings.
null == "null"

\* new RegExp('(\\d+)\\s*([+\\-])\\s*(HP|Atk|Def|SpA|SpD|Spe)', 'gi')
NatureRegex ==
  Cat(<<Grp(1, Plus(Dg)), Star(Ws), Grp(2, Sign), Star(Ws), Grp(3, StatAlt)>>)

\* The last stat marked with `sign` among the matches, null when there is none.
RECURSIVE LastMarked(_, _, _, _)
LastMarked(str, matches, sign, acc) ==
  IF matches = <<>> THEN acc
  ELSE LET m == Head(matches)
       IN LastMarked(str, Tail(matches), sign,
                     IF Group(str, m, 2).val = <<sign>>
                     THEN statMap(Group(str, m, 3).val) ELSE acc)

\* `plus` and `minus` after the loop over the matches.
MarksOf(str, matches) ==
  [plus  |-> LastMarked(str, matches, "+", null),
   minus |-> LastMarked(str, matches, "-", null)]

NatureMarks(str) == MarksOf(str, MatchAll(NatureRegex, TRUE, str))

commonMinusStats ==
  [p \in {"atk", "spa", "spe", "def", "spd"} |->
     CASE p = "atk" -> "spa"
       [] p = "spa" -> "atk"
       [] p = "spe" -> "atk"
       [] p = "def" -> "spa"
       [] p = "spd" -> "atk"]

\* The fallback alone: every raised stat is paired with 'atk'.
InferMinusAlwaysAtk(plus) == "atk"

\* commonMinusStats[plus] || 'atk'
InferMinus(plus) ==
  IF plus \in DOMAIN commonMinusStats THEN commonMinusStats[plus] ELSE "atk"

\* if (plus && !minus) minus = ... : the pair as it stands at the return.
InferredMarks(marks) ==
  IF marks.plus # null /\ marks.minus = null
  THEN [marks EXCEPT !.minus = InferMinus(marks.plus)] ELSE marks

\* The (plus, minus) pair of a side text when detectNatureFromEVs returns.
NaturePair(str) == InferredMarks(NatureMarks(str))

natureMap ==
  (<<"atk", "def">> :> "Lonely")  @@ (<<"atk", "spa">> :> "Adamant") @@
  (<<"atk", "spd">> :> "Naughty") @@ (<<"atk", "spe">> :> "Brave")   @@
  (<<"def", "atk">> :> "Bold")    @@ (<<"def", "spa">> :> "Impish")  @@
  (<<"def", "spd">> :> "Lax")     @@ (<<"def", "spe">> :> "Relaxed") @@
  (<<"spa", "atk">> :> "Modest")  @@ (<<"spa", "def">> :> "Mild")    @@
  (<<"spa", "spd">> :> "Rash")    @@ (<<"spa", "spe">> :> "Quiet")   @@
  (<<"spd", "atk">> :> "Calm")    @@ (<<"spd", "def">> :> "Gentle")  @@
  (<<"spd", "spa">> :> "Careful") @@ (<<"spd", "spe">> :> "Sassy")   @@
  (<<"spe", "atk">> :> "Timid")   @@ (<<"spe", "def">> :> "Hasty")   @@
  (<<"spe", "spa">> :> "Jolly")   @@ (<<"spe", "spd">> :> "Naive")

\* The lookup with another neutral nature as its default.
getNatureNameSerious(plus, minus) ==
  IF <<plus, minus>> \in DOMAIN natureMap THEN natureMap[<<plus, minus>>]
  ELSE "Serious"

\* natureMap[key] || 'Hardy'
getNatureName(plus, minus) ==
  IF <<plus, minus>> \in DOMAIN natureMap THEN natureMap[<<plus, minus>>]
  ELSE "Hardy"

\* return plus && minus ? getNatureName(plus, minus) : null
NatureOfPair(marks) ==
  IF marks.plus # null /\ marks.minus # null
  THEN getNatureName(marks.plus, marks.minus) ELSE null

detectNatureFromEVs(str) == NatureOfPair(NaturePair(str))

(***************************************************************************)
(* parseField                                                              *)
(***************************************************************************)
W_in      == <<"i", "n">>
W_under   == <<"u", "n", "d", "e", "r">>
W_on      == <<"o", "n">>
W_with    == <<"w", "i", "t", "h">>
W_after   == <<"a", "f", "t", "e", "r">>
W_and     == <<"a", "n", "d">>
W_layer   == <<"l", "a", "y", "e", "r">>
W_of      == <<"o", "f">>
W_Spikes  == <<"S", "p", "i", "k", "e", "s">>
W_Terrain == <<"T", "e", "r", "r", "a", "i", "n">>
W_Gravity == <<"G", "r", "a", "v", "i", "t", "y">>
W_StealthRock == <<"S", "t", "e", "a", "l", "t", "h", " ", "R", "o", "c", "k">>
W_LightScreen == <<"L", "i", "g", "h", "t", " ", "S", "c", "r", "e", "e", "n">>
W_Reflect     == <<"R", "e", "f", "l", "e", "c", "t">>
W_AuroraVeil  == <<"A", "u", "r", "o", "r", "a", " ", "V", "e", "i", "l">>

\* (Rain|Sun|Sand|Hail|Snow)
WeatherAlt ==
  Alt(<<Lit(<<"R", "a", "i", "n">>), Lit(<<"S", "u", "n">>),
        Lit(<<"S", "a", "n", "d">>), Lit(<<"H", "a", "i", "l">>),
        Lit(<<"S", "n", "o", "w">>)>>)

\* (Electric|Grassy|Psychic|Misty)
TerrainAlt ==
  Alt(<<Lit(<<"E", "l", "e", "c", "t", "r", "i", "c">>),
        Lit(<<"G", "r", "a", "s", "s", "y">>),
        Lit(<<"P", "s", "y", "c", "h", "i", "c">>),
        Lit(<<"M", "i", "s", "t", "y">>)>>)

\* (Light Screen|Reflect|Aurora Veil)
ScreenAlt == Alt(<<Lit(W_LightScreen), Lit(W_Reflect), Lit(W_AuroraVeil)>>)

\* /\b(?:in)\s+(Rain|Sun|Sand|Hail|Snow)/i
FieldWeatherRe == Cat(<<WordB, Lit(W_in), Plus(Ws), Grp(1, WeatherAlt)>>)

\* /\b(?:on|with)\s+(Electric|Grassy|Psychic|Misty)\s+Terrain/i
FieldTerrainRe ==
  Cat(<<WordB, Alt(<<Lit(W_on), Lit(W_with)>>), Plus(Ws), Grp(1, TerrainAlt),
        Plus(Ws), Lit(W_Terrain)>>)

\* /\b(?:under|with)\s+(Light Screen|Reflect|Aurora Veil)/i
FieldScreensRe ==
  Cat(<<WordB, Alt(<<Lit(W_under), Lit(W_with)>>), Plus(Ws), Grp(1, ScreenAlt)>>)

\* /\b(?:after|with)\s+Stealth Rock/i
FieldSRRe ==
  Cat(<<WordB, Alt(<<Lit(W_after), Lit(W_with)>>), Plus(Ws), Lit(W_StealthRock)>>)

\* /(?:with\s+)?(\d+)\s+layers?\s+of\s+Spikes/i
FieldSpikesRe ==
  Cat(<<Opt(Cat(<<Lit(W_with), Plus(Ws)>>)), Grp(1, Plus(Dg)), Plus(Ws),
        Lit(W_layer), Opt(Lit(<<"s">>)), Plus(Ws), Lit(W_of), Plus(Ws),
        Lit(W_Spikes)>>)

\* /\b(?:under|with)\s+Gravity/i
FieldGravityRe ==
  Cat(<<WordB, Alt(<<Lit(W_under), Lit(W_with)>>), Plus(Ws), Lit(W_Gravity)>>)

\* m ? m[1] : undefined
FirstGroupOf(rawInput, m) == IF m.found THEN Group(rawInput, m, 1) ELSE Undefined

\* screensMatch?.[1] === name : strict (case-sensitive) text equality.
ScreenIs(rawInput, screensMatch, name) ==
  screensMatch.found /\ Group(rawInput, screensMatch, 1) = Some(name)

\* spikesMatch ? parseInt(spikesMatch[1], 10) : 0
SpikesOf(rawInput, spikesMatch) ==
  IF spikesMatch.found THEN parseInt(Group(rawInput, spikesMatch, 1).val) ELSE 0

\* The object parseField returns, from its six matches.
FieldOf(rawInput, weatherMatch, terrainMatch, screensMatch, srMatch, spikesMatch, gravityMatch) ==
  [weather   |-> FirstGroupOf(rawInput, weatherMatch),
   terrain   |-> FirstGroupOf(rawInput, terrainMatch),
   isGravity |-> gravityMatch.found,
   defenderSide |->
     [isLightScreen |-> ScreenIs(rawInput, screensMatch, W_LightScreen),
      isReflect     |-> ScreenIs(rawInput, screensMatch, W_Reflect),
      isAuroraVeil  |-> ScreenIs(rawInput, screensMatch, W_AuroraVeil),
      isSR          |-> srMatch.found,
      spikes        |-> SpikesOf(rawInput, spikesMatch)]]

parseField(rawInput) ==
  FieldOf(rawInput,
          Match(FieldWeatherRe, TRUE, rawInput),
          Match(FieldTerrainRe, TRUE, rawInput),
          Match(FieldScreensRe, TRUE, rawInput),
          Match(FieldSRRe, TRUE, rawInput),
          Match(FieldSpikesRe, TRUE, rawInput),
          Match(FieldGravityRe, TRUE, rawInput))

(***************************************************************************)
(* parseCalcInput: the destructive removal of the field phrases            *)
(***************************************************************************)
\* /\b(?:in|under)\s+(Rain|Sun|Sand|Hail|Snow)/gi
RemoveWeatherRe ==
  Cat(<<WordB, Alt(<<Lit(W_in), Lit(W_under)>>), Plus(Ws), Grp(1, WeatherAlt)>>)

\* /\b(?:on|with)\s+(Electric|Grassy|Psychic|Misty)\s+Terrain/gi
RemoveTerrainRe ==
  Cat(<<WordB, Alt(<<Lit(W_on), Lit(W_with)>>), Plus(Ws), Grp(1, TerrainAlt),
        Plus(Ws), Lit(W_Terrain)>>)

\* /\b(?:under|with)\s+(Light Screen|Reflect|Aurora Veil)/gi
RemoveScreensRe ==
  Cat(<<WordB, Alt(<<Lit(W_under), Lit(W_with)>>), Plus(Ws), Grp(1, ScreenAlt)>>)

\* /\b(?:after|with)\s+Stealth Rock/gi
RemoveSRRe ==
  Cat(<<WordB, Alt(<<Lit(W_after), Lit(W_with)>>), Plus(Ws), Lit(W_StealthRock)>>)

\* /\b(?:and\s+)?(?:with\s+)?(?:\d+\s+)?layers?\s+of\s+Spikes/gi
RemoveSpikesRe ==
  Cat(<<WordB, Opt(Cat(<<Lit(W_and), Plus(Ws)>>)),
        Opt(Cat(<<Lit(W_with), Plus(Ws)>>)), Opt(Cat(<<Plus(Dg), Plus(Ws)>>)),
        Lit(W_layer), Opt(Lit(<<"s">>)), Plus(Ws), Lit(W_of), Plus(Ws),
        Lit(W_Spikes)>>)

\* /\b(?:under|with)\s+Gravity/gi
RemoveGravityRe ==
  Cat(<<WordB, Alt(<<Lit(W_under), Lit(W_with)>>), Plus(Ws), Lit(W_Gravity)>>)

RemoveWeather(s) == ReplaceAll(RemoveWeatherRe, TRUE, s, <<>>)
RemoveTerrain(s) == ReplaceAll(RemoveTerrainRe, TRUE, s, <<>>)
RemoveScreens(s) == ReplaceAll(RemoveScreensRe, TRUE, s, <<>>)
RemoveSR(s)      == ReplaceAll(RemoveSRRe, TRUE, s, <<>>)
RemoveSpikes(s)  == ReplaceAll(RemoveSpikesRe, TRUE, s, <<>>)
RemoveGravity(s) == ReplaceAll(RemoveGravityRe, TRUE, s, <<>>)

cleanedInputForPokemon(rawInput) ==
  trim(RemoveGravity(RemoveSpikes(RemoveSR(RemoveScreens(RemoveTerrain(
         RemoveWeather(rawInput)))))))

\* /(.+?) using (.+?) vs (.+)/i
ScenarioRe ==
  Cat(<<Grp(1, PlusLazy(Dot)), Lit(<<" ", "u", "s", "i", "n", "g", " ">>),
        Grp(2, PlusLazy(Dot)), Lit(<<" ", "v", "s", " ">>), Grp(3, Plus(Dot))>>)

(***************************************************************************)
(* parseSide                                                               *)
(***************************************************************************)
\* /\(([^)]+)\)/
AbilityRe == Cat(<<Lit(<<"(">>), Grp(1, Plus(NotCls({")"}))), Lit(<<")">>)>>)

\* /([+-]\d+)?\s*(\d+)?([+-]?)\s*(HP|Atk|Def|SpA|SpD|Spe)/gi
EvRe ==
  Cat(<<Opt(Grp(1, Cat(<<Sign, Plus(Dg)>>))), Star(Ws), Opt(Grp(2, Plus(Dg))),
        Grp(3, Opt(Sign)), Star(Ws), Grp(4, StatAlt)>>)

\* /([+-]\d+)?\s*\d*[+-]?\s*(HP|Atk|Def|SpA|SpD|Spe)(?:\s*\/\s*)?/gi
StatTokenRe ==
  Cat(<<Opt(Grp(1, Cat(<<Sign, Plus(Dg)>>))), Star(Ws), Star(Dg), Opt(Sign),
        Star(Ws), Grp(2, StatAlt),
        Opt(Cat(<<Star(Ws), Lit(<<"/">>), Star(Ws)>>))>>)

\* /\([^)]+\)/g
AbilityGroupRe == Cat(<<Lit(<<"(">>), Plus(NotCls({")"})), Lit(<<")">>)>>)

\* /\s+/g
SpacesRe == Plus(Ws)

\* obj[key] = value on a JavaScript object modelled as a function.
Put(obj, key, value) ==
  [k \in DOMAIN obj \cup {key} |-> IF k = key THEN value ELSE obj[k]]

EmptyObject == [k \in {} |-> 0]

\* The loop over evMatches, for the field the capture group `g` feeds
\* (1: boostPart -> boosts, 2: rawEV -> evs).
RECURSIVE CollectStats(_, _, _, _)
CollectStats(str, matches, g, acc) ==
  IF matches = <<>> THEN acc
  ELSE LET m    == Head(matches)
           part == Group(str, m, g)
           mappedStat == statMap(Group(str, m, 4).val)
       IN CollectStats(str, Tail(matches), g,
                       IF part.some /\ part.val # <<>>
                       THEN Put(acc, mappedStat, parseInt(part.val)) ELSE acc)

SideBoosts(str) == CollectStats(str, MatchAll(EvRe, TRUE, str), 1, EmptyObject)

SideEvs(str) == CollectStats(str, MatchAll(EvRe, TRUE, str), 2, EmptyObject)

\* Step 1 of "Clean the string": the stat tokens are removed.
StripStatTokens(str) == ReplaceAll(StatTokenRe, TRUE, str, <<>>)

\* Step 2: the parenthesized ability is removed.
StripAbility(str) == ReplaceAll(AbilityGroupRe, FALSE, str, <<>>)

\* Step 3: runs of white space become one space.
NormalizeSpaces(str) == ReplaceAll(SpacesRe, FALSE, str, <<" ">>)

\* const cleaned = str.replace(...).replace(...).replace(...).trim()
CleanSide(str) == trim(NormalizeSpaces(StripAbility(StripStatTokens(str))))

\* abilityMatch ? abilityMatch[1].trim() : null
AbilityOf(str, abilityMatch) ==
  IF abilityMatch.found THEN Some(trim(Group(str, abilityMatch, 1).val))
  ELSE Undefined

SideAbility(str) == AbilityOf(str, Match(AbilityRe, FALSE, str))

\* const [name, item] = cleaned.split('@').map(s => s.trim())
NameOf(parts) == trim(parts[1])

\* item || '' : undefined when the text holds no '@'.
ItemOf(parts) == IF Len(parts) >= 2 THEN trim(parts[2]) ELSE <<>>

\* The object parseSide returns.
SideOf(parts, evs, boosts, nature, ability) ==
  [name    |-> NameOf(parts),
   item    |-> ItemOf(parts),
   evs     |-> evs,
   boosts  |-> boosts,
   nature  |-> nature,
   ability |-> ability]

parseSide(str) ==
  SideOf(split(CleanSide(str), "@"), SideEvs(str), SideBoosts(str),
         detectNatureFromEVs(str), SideAbility(str))

(***************************************************************************)
(* parseCalcInput                                                          *)
(***************************************************************************)
Null == [isNull |-> TRUE]

\* The scenario pattern matched without the i flag.
ScenarioMatchCaseSensitive(cleaned) == Match(ScenarioRe, FALSE, cleaned)

\* const match = cleanedInputForPokemon.match(/(.+?) using (.+?) vs (.+)/i)
ScenarioMatch(cleaned) == Match(ScenarioRe, TRUE, cleaned)

\* if (!match) return null; otherwise the object parseCalcInput returns.
ScenarioOf(fieldData, cleaned, match) ==
  IF ~match.found THEN Null
  ELSE [isNull    |-> FALSE,
        attacker  |-> parseSide(Group(cleaned, match, 1).val),
        move      |-> trim(Group(cleaned, match, 2).val),
        defender  |-> parseSide(Group(cleaned, match, 3).val),
        fieldData |-> fieldData]

\* const [, attackerStr, move, defenderStr] = match
MatchedPart(cleaned, n) == Group(cleaned, ScenarioMatch(cleaned), n).val

attackerStr(rawInput) == MatchedPart(cleanedInputForPokemon(rawInput), 1)

defenderStr(rawInput) == MatchedPart(cleanedInputForPokemon(rawInput), 3)

ParseCleaned(fieldData, cleaned) ==
  ScenarioOf(fieldData, cleaned, ScenarioMatch(cleaned))

parseCalcInput(rawInput) ==
  ParseCleaned(parseField(rawInput), cleanedInputForPokemon(rawInput))

(***************************************************************************)
(* fetchSetsData and setsCache.  A call runs to its first await (the cache *)
(* lookup), resumes when fetch settles, and resumes again when             *)
(* response.json() settles; other calls and timers run in between.  Time   *)
(* is counted in minutes and advances TickMinutes at a time; a timer that  *)
(* is due runs before time advances further.                               *)
(***************************************************************************)
MaxCalls == 2
MaxMinutes == 70
TickMinutes == 10

\* 30 * 60 * 1000 ms
CacheMinutes == 30

Calls == 1..MaxCalls

Formats == {"gen9ou", "gen9uu"}

NoData == [by |-> 0, at |-> 0]

\* new Map()
EmptyMap == [k \in {} |-> NoData]

IdleCall == [at |-> "idle", format |-> "", result |-> NoData]

\* setsCache.set(cacheKey, data)
MapSet(map, key, value) ==
  [k \in DOMAIN map \cup {key} |-> IF k = key THEN value ELSE map[k]]

\* setsCache.delete(cacheKey)
MapDelete(map, key) == [k \in DOMAIN map \ {key} |-> map[k]]

\* No call has started, the cache is empty, no timer is pending.
CacheIdle ==
  /\ setsCache = EmptyMap
  /\ timers = {}
  /\ now = 0
  /\ calls = [c \in Calls |-> IdleCall]

\* fetchSetsData(format) up to its first await: a cached entry is returned,
\* otherwise the fetch is started.
Call(c, format) ==
  /\ calls[c].at = "idle"
  /\ calls' = [calls EXCEPT ![c] =
                 IF format \in DOMAIN setsCache
                 THEN [at |-> "returned", format |-> format,
                       result |-> setsCache[format]]
                 ELSE [at |-> "awaitFetch", format |-> format, result |-> NoData]]
  /\ UNCHANGED <<words, pc, parsed, setsCache, timers, now>>

\* await fetch(url) settles: a response that is ok goes on to
\* response.json(); one that is not ok, or a rejected fetch, throws.
FetchSettles(c, outcome) ==
  /\ calls[c].at = "awaitFetch"
  /\ calls' = [calls EXCEPT ![c].at =
                 IF outcome = "ok" THEN "awaitJson" ELSE "threw"]
  /\ UNCHANGED <<words, pc, parsed, setsCache, timers, now>>

\* The entry a call stores: the data it fetched, stored at the present time.
DataOf(c) == [by |-> c, at |-> now]

\* await response.json() settles: the data is stored under the format, the
\* eviction timer is started and the data returned; a rejection throws.
JsonSettles(c, outcome) ==
  /\ calls[c].at = "awaitJson"
  /\ IF outcome = "resolved"
     THEN /\ setsCache' = MapSet(setsCache, calls[c].format, DataOf(c))
          /\ timers' = timers \cup {[key |-> calls[c].format, by |-> c,
                                      due |-> now + CacheMinutes]}
          /\ calls' = [calls EXCEPT ![c].at = "returned", ![c].result = DataOf(c)]
     ELSE /\ calls' = [calls EXCEPT ![c].at = "threw"]
          /\ UNCHANGED <<setsCache, timers>>
  /\ UNCHANGED <<words, pc, parsed, now>>

\* The setTimeout callback: setsCache.delete(cacheKey).
TimerFires(t) ==
  /\ t \in timers
  /\ now >= t.due
  /\ setsCache' = MapDelete(setsCache, t.key)
  /\ timers' = timers \ {t}
  /\ UNCHANGED <<words, pc, parsed, now, calls>>

\* Time passes; timers that are due run first.
Tick ==
  /\ now + TickMinutes <= MaxMinutes
  /\ \A t \in timers : t.due > now
  /\ now' = now + TickMinutes
  /\ UNCHANGED <<words, pc, parsed, setsCache, timers, calls>>

NextCache ==
  \/ \E c \in Calls, format \in Formats : Call(c, format)
  \/ \E c \in Calls, outcome \in {"ok", "notOk", "rejected"} : FetchSettles(c, outcome)
  \/ \E c \in Calls, outcome \in {"resolved", "rejected"} : JsonSettles(c, outcome)
  \/ \E t \in timers : TimerFires(t)
  \/ Tick

(***************************************************************************)
(* The bot: a "!cat calc <text>" message arrives, the handler parses it.   *)
(* `words` is the text after the command prefix, as the words it was typed *)
(* in; the handler sees their concatenation.                               *)
(***************************************************************************)
RECURSIVE Flatten(_)
Flatten(ws) == IF ws = <<>> THEN <<>> ELSE Head(ws) \o Flatten(Tail(ws))

\* content = message.content.trim(); inputStr = content.slice('!cat calc '.length)
inputStr == TrimRight(Flatten(words))

\* All word sequences of at most n words over vocabulary V.
WordSeqs(V, n) == UNION {[1..k -> V] : k \in 0..n}

\* bot.on('messageCreate') for a '!cat calc ' message, up to the parse.
CalcCommand ==
  /\ pc = "received"
  /\ inputStr # <<>>
  /\ parsed' = parseCalcInput(inputStr)
  /\ pc' = IF parsed'.isNull THEN "usage" ELSE "parsed"
  /\ UNCHANGED words
  /\ UNCHANGED cacheVars

\* '!cat calc' with nothing after it does not start with '!cat calc ' once
\* trimmed: the calc branch is not taken.
OtherMessage ==
  /\ pc = "received"
  /\ inputStr = <<>>
  /\ pc' = "ignored"
  /\ UNCHANGED <<words, parsed>>
  /\ UNCHANGED cacheVars

Next == CalcCommand \/ OtherMessage

(***************************************************************************)
(* Messages of any shape: free sequences of words.                         *)
(***************************************************************************)
MaxWords == 5

V_Ab    == <<"A", "b">>
V_Using == <<" ", "U", "s", "i", "n", "g", " ">>
V_VS    == <<" ", "V", "S", " ">>
V_inSun == <<" ", "i", "n", " ", "S", "u", "n">>

Vocabulary == {V_Ab, V_Using, V_VS, V_inSun}

Init ==
  /\ words \in WordSeqs(Vocabulary, MaxWords)
  /\ pc = "received"
  /\ parsed = Null
  /\ CacheIdle

Spec == Init /\ [][Next]_vars

(***************************************************************************)
(* Messages whose attacker carries nature markers: up to MaxNatureWords    *)
(* stat words ("252+ Atk ", "4- SpA ", "252 HP ") before "Ab using Ab vs   *)
(* Ab".                                                                    *)
(***************************************************************************)
MaxNatureWords == 2

V_Scenario ==
  <<"A", "b", " ", "u", "s", "i", "n", "g", " ", "A", "b", " ", "v", "s", " ",
    "A", "b">>

StatAbbrevs ==
  {<<"H", "P">>, <<"A", "t", "k">>, <<"D", "e", "f">>, <<"S", "p", "A">>,
   <<"S", "p", "D">>, <<"S", "p", "e">>}

RaisedWord(stat)  == <<"2", "5", "2", "+", " ">> \o stat \o <<" ">>
LoweredWord(stat) == <<"4", "-", " ">> \o stat \o <<" ">>
V_252HP == <<"2", "5", "2", " ", "H", "P", " ">>

NatureVocabulary ==
  {RaisedWord(st) : st \in StatAbbrevs} \cup
  {LoweredWord(st) : st \in StatAbbrevs} \cup {V_252HP}

InitNature ==
  /\ words \in {<<>>} \cup
              {ws \o <<V_Scenario>> : ws \in WordSeqs(NatureVocabulary, MaxNatureWords)}
  /\ pc = "received"
  /\ parsed = Null
  /\ CacheIdle

SpecNature == InitNature /\ [][Next]_vars

(***************************************************************************)
(* Messages whose attacker side is built from up to MaxSideWords pieces of *)
(* names, items, stat tokens and ability groups, before " using Ab vs Ab". *)
(***************************************************************************)
MaxSideWords == 3

V_A           == <<"A">>
V_tk          == <<"t", "k">>
V_Atk         == <<"A", "t", "k">>
V_Ability     == <<"(", "x", ")">>
V_Espeon      == <<"E", "s", "p", "e", "o", "n">>
V_At          == <<" ", "@", " ">>
V_ChoiceSpecs == <<"C", "h", "o", "i", "c", "e", " ", "S", "p", "e", "c", "s">>
V_Boost999Atk == <<"+", "9", " ", "9", "9", "9", " ", "A", "t", "k">>

SideVocabulary ==
  {V_A, V_tk, V_Atk, V_Ability, V_Espeon, V_At, V_ChoiceSpecs, V_Boost999Atk}

V_UsingAbVsAb ==
  <<" ", "u", "s", "i", "n", "g", " ", "A", "b", " ", "v", "s", " ", "A", "b">>

InitSide ==
  /\ words \in {<<>>} \cup
              {ws \o <<V_UsingAbVsAb>> : ws \in WordSeqs(SideVocabulary, MaxSideWords)}
  /\ pc = "received"
  /\ parsed = Null
  /\ CacheIdle

SpecSide == InitSide /\ [][Next]_vars

(***************************************************************************)
(* Messages "Ab using Ab vs Ab" followed by up to MaxFieldWords field      *)
(* phrases.                                                                *)
(***************************************************************************)
MaxFieldWords == 2

V_inSand == <<" ", "i", "n", " ", "S", "a", "n", "d">>
V_underRain == <<" ", "u", "n", "d", "e", "r", " ", "R", "a", "i", "n">>
V_withLightScreen ==
  <<" ", "w", "i", "t", "h", " ", "L", "i", "g", "h", "t", " ", "S", "c", "r",
    "e", "e", "n">>
V_withlightscreen ==
  <<" ", "w", "i", "t", "h", " ", "l", "i", "g", "h", "t", " ", "s", "c", "r",
    "e", "e", "n">>
V_with2Layers ==
  <<" ", "w", "i", "t", "h", " ", "2", " ", "l", "a", "y", "e", "r", "s", " ",
    "o", "f", " ", "S", "p", "i", "k", "e", "s">>
V_andLayers ==
  <<" ", "a", "n", "d", " ", "l", "a", "y", "e", "r", "s", " ", "o", "f", " ",
    "S", "p", "i", "k", "e", "s">>
V_withStealthRock ==
  <<" ", "w", "i", "t", "h", " ", "S", "t", "e", "a", "l", "t", "h", " ", "R",
    "o", "c", "k">>
V_onGrassyTerrain ==
  <<" ", "o", "n", " ", "G", "r", "a", "s", "s", "y", " ", "T", "e", "r", "r",
    "a", "i", "n">>
V_underGravity ==
  <<" ", "u", "n", "d", "e", "r", " ", "G", "r", "a", "v", "i", "t", "y">>

FieldVocabulary ==
  {V_inSand, V_underRain, V_withLightScreen, V_withlightscreen, V_with2Layers,
   V_andLayers, V_withStealthRock, V_onGrassyTerrain, V_underGravity}

InitField ==
  /\ words \in {<<>>} \cup
              {<<V_Scenario>> \o ws : ws \in WordSeqs(FieldVocabulary, MaxFieldWords)}
  /\ pc = "received"
  /\ parsed = Null
  /\ CacheIdle

SpecField == InitField /\ [][Next]_vars

(***************************************************************************)
(* The cache on its own: no calc message is being handled.                 *)
(***************************************************************************)
InitCache ==
  /\ words = <<>>
  /\ pc = "ignored"
  /\ parsed = Null
  /\ CacheIdle

SpecCache == InitCache /\ [][NextCache]_vars

(***************************************************************************)
(* Properties.                                                             *)
(***************************************************************************)
Handled == pc \in {"usage", "parsed"}

\* Word w stands at position i of s, letter case ignored.
StandsAt(w, s, i) ==
  /\ i >= 1
  /\ i + Len(w) - 1 <= Len(s)
  /\ \A j \in 1..Len(w) : toLowerCase(s[i + j - 1]) = toLowerCase(w[j])

Contains(w, s) == \E i \in 1..Len(s) : StandsAt(w, s, i)

SepUsing == <<" ", "u", "s", "i", "n", "g", " ">>
SepVs    == <<" ", "v", "s", " ">>

\* s reads <non-empty attacker> using <non-empty move> vs <non-empty defender>:
\* " using " stands at i with text before it, " vs " stands at j with text
\* between the two and text after it.
HasScenarioShape(s) ==
  \E i \in 2..Len(s), j \in 1..Len(s) :
    /\ StandsAt(SepUsing, s, i)
    /\ j >= i + Len(SepUsing) + 1
    /\ StandsAt(SepVs, s, j)
    /\ j + Len(SepVs) <= Len(s)

SideFields == {"name", "item", "evs", "boosts", "nature", "ability"}

\* C1: parseCalcInput returns null exactly when the field-stripped, trimmed
\* input does not read <attacker> using <move> vs <defender> with three
\* non-empty parts ('using' and 'vs' in any letter case); an input without
\* 'using' or without 'vs' yields null, and every other result carries
\* attacker, move, defender and field data.
C1_AbsentIffNoShape ==
  Handled =>
    /\ parsed.isNull <=> ~HasScenarioShape(cleanedInputForPokemon(inputStr))
    /\ ( \/ ~Contains(<<"u", "s", "i", "n", "g">>, inputStr)
         \/ ~Contains(<<"v", "s">>, inputStr) ) => parsed.isNull
    /\ ~parsed.isNull =>
         /\ DOMAIN parsed = {"isNull", "attacker", "move", "defender", "fieldData"}
         /\ DOMAIN parsed.attacker = SideFields
         /\ DOMAIN parsed.defender = SideFields
         /\ pc = "parsed"

\* The raw text has the three parts, but its defender is a weather phrase:
\* once the phrase is stripped nothing follows "vs", and the parse is null.
C1_Witness ==
  /\ pc = "usage"
  /\ parsed.isNull
  /\ HasScenarioShape(inputStr)
  /\ ~HasScenarioShape(cleanedInputForPokemon(inputStr))

\* The two sides of a returned request.
Sides == {parsed.attacker, parsed.defender}

\* C2: a side whose text reduces to an empty species name once stat tokens,
\* the ability group and whitespace are stripped makes the whole parse fail:
\* no returned request has an empty attacker or defender name.
C2_NoEmptyName ==
  Handled =>
    /\ pc = "parsed" => \A side \in Sides : side.name # <<>>
    /\ ( /\ ScenarioMatch(cleanedInputForPokemon(inputStr)).found
         /\ \/ NameOf(split(CleanSide(attackerStr(inputStr)), "@")) = <<>>
            \/ NameOf(split(CleanSide(defenderStr(inputStr)), "@")) = <<>> )
        => parsed.isNull

\* C3: in every returned request each recorded EV is an integer in 0..252
\* and each recorded boost an integer in -6..6, whatever number the text
\* writes before the stat abbreviation.
C3_EvsAndBoostsInRange ==
  pc = "parsed" =>
    \A side \in Sides :
      /\ \A k \in DOMAIN side.evs : side.evs[k] \in 0..252
      /\ \A k \in DOMAIN side.boosts : side.boosts[k] \in -6..6

\* What the words of a message say, read off the words themselves: the stat
\* key an abbreviation stands for, and the last stat a word marks with `mk`
\* (mk(stat) being RaisedWord(stat) or LoweredWord(stat)).
KeyOfAbbrev(stat) ==
  CASE stat = <<"H", "P">> -> "hp"
    [] stat = <<"A", "t", "k">> -> "atk"
    [] stat = <<"D", "e", "f">> -> "def"
    [] stat = <<"S", "p", "A">> -> "spa"
    [] stat = <<"S", "p", "D">> -> "spd"
    [] stat = <<"S", "p", "e">> -> "spe"

RECURSIVE LastWordMark(_, _, _)
LastWordMark(ws, mk(_), acc) ==
  IF ws = <<>> THEN acc
  ELSE LastWordMark(Tail(ws), mk,
                    IF \E st \in StatAbbrevs : Head(ws) = mk(st)
                    THEN KeyOfAbbrev(CHOOSE st \in StatAbbrevs : Head(ws) = mk(st))
                    ELSE acc)

WordsRaised  == LastWordMark(words, RaisedWord, null)
WordsLowered == LastWordMark(words, LoweredWord, null)

\* The companion table as the specification states it.
Companion ==
  ("atk" :> "spa") @@ ("spa" :> "atk") @@ ("spe" :> "atk") @@
  ("def" :> "spa") @@ ("spd" :> "atk")

\* C4: with a raised stat r and a lowered stat l both marked the nature is
\* the table's entry for (r, l); with only r marked the lowered stat is
\* r's companion (atk->spa, spa->atk, spe->atk, def->spa, spd->atk) and the
\* table is looked up; with no marker the nature is absent.
C4_ThreeCaseInference ==
  pc = "parsed" =>
    /\ (WordsRaised # null /\ WordsLowered # null
          /\ <<WordsRaised, WordsLowered>> \in DOMAIN natureMap)
         => parsed.attacker.nature = natureMap[<<WordsRaised, WordsLowered>>]
    /\ (WordsRaised \in DOMAIN Companion /\ WordsLowered = null)
         => parsed.attacker.nature = natureMap[<<WordsRaised, Companion[WordsRaised]>>]
    /\ (WordsRaised = null /\ WordsLowered = null)
         => parsed.attacker.nature = null
    /\ (WordsRaised = "atk" /\ WordsLowered = "spa") => parsed.attacker.nature = "Adamant"
    /\ (WordsRaised = "spe" /\ WordsLowered = "def") => parsed.attacker.nature = "Hasty"
    /\ (WordsRaised = "spe" /\ WordsLowered = null) => parsed.attacker.nature = "Timid"
    /\ (WordsRaised = "atk" /\ WordsLowered = null) => parsed.attacker.nature = "Adamant"

\* "4- Def 252+ Spe Ab using Ab vs Ab": both marked, the nature is Hasty.
C4_Witness ==
  /\ pc = "parsed"
  /\ WordsRaised = "spe"
  /\ WordsLowered = "def"
  /\ parsed.attacker.nature = "Hasty"

\* The pair the code hands to getNatureName for the attacker, when it does.
HandsPair == pc = "parsed" /\ NaturePair(attackerStr(inputStr)).plus # null
                           /\ NaturePair(attackerStr(inputStr)).minus # null

\* C5 as stated: every pair handed to the nature table is one of its 20
\* entries (raised # lowered, neither hp), so the lookup never falls through
\* to 'Hardy'.
C5_PairAlwaysInTable ==
  HandsPair =>
    /\ <<NaturePair(attackerStr(inputStr)).plus,
         NaturePair(attackerStr(inputStr)).minus>> \in DOMAIN natureMap
    /\ NaturePair(attackerStr(inputStr)).plus # NaturePair(attackerStr(inputStr)).minus
    /\ NaturePair(attackerStr(inputStr)).plus # "hp"
    /\ NaturePair(attackerStr(inputStr)).minus # "hp"
    /\ parsed.attacker.nature # "Hardy"

\* The lowered stat the words give: the marked one, else the companion of the
\* raised stat, 'atk' when it has none.
WordsLoweredOrCompanion ==
  IF WordsLowered # null THEN WordsLowered
  ELSE IF WordsRaised \in DOMAIN Companion THEN Companion[WordsRaised]
  ELSE "atk"

\* C5 amended: with a raised stat marked, the pair handed to the table is
\* (raised, lowered-or-companion); it is one of the 20 entries exactly when
\* raised # lowered and neither is hp, and for every other pair the lookup
\* falls through to 'Hardy'.
C5_PairInTableUnlessSameOrHp ==
  (pc = "parsed" /\ WordsRaised # null) =>
    /\ NaturePair(attackerStr(inputStr)) =
         [plus |-> WordsRaised, minus |-> WordsLoweredOrCompanion]
    /\ (<<WordsRaised, WordsLoweredOrCompanion>> \in DOMAIN natureMap)
         <=> ( /\ WordsRaised # WordsLoweredOrCompanion
               /\ WordsRaised # "hp"
               /\ WordsLoweredOrCompanion # "hp" )
    /\ (<<WordsRaised, WordsLoweredOrCompanion>> \in DOMAIN natureMap)
         => parsed.attacker.nature = natureMap[<<WordsRaised, WordsLoweredOrCompanion>>]
    /\ (<<WordsRaised, WordsLoweredOrCompanion>> \notin DOMAIN natureMap)
         => parsed.attacker.nature = "Hardy"

\* "252+ Atk 4- Atk Ab using Ab vs Ab": the pair (atk, atk) is handed to the
\* table and the nature is Hardy.
C5_Witness ==
  /\ pc = "parsed"
  /\ WordsRaised = "atk"
  /\ WordsLowered = "atk"
  /\ parsed.attacker.nature = "Hardy"

\* The text with every letter in upper case.
toUpperCase(c) ==
  IF \E u \in DOMAIN UpperToLower : UpperToLower[u] = c
  THEN CHOOSE u \in DOMAIN UpperToLower : UpperToLower[u] = c
  ELSE c

UpperText(s) == [i \in 1..Len(s) |-> toUpperCase(s[i])]

WeatherNames == {<<"R", "a", "i", "n">>, <<"S", "u", "n">>, <<"S", "a", "n", "d">>,
                 <<"H", "a", "i", "l">>, <<"S", "n", "o", "w">>}

TerrainNames == {<<"E", "l", "e", "c", "t", "r", "i", "c">>,
                 <<"G", "r", "a", "s", "s", "y">>,
                 <<"P", "s", "y", "c", "h", "i", "c">>,
                 <<"M", "i", "s", "t", "y">>}

\* C6: parseField is case-insensitive: every re-casing of the input gives
\* the same field, weather and terrain are canonical enum values or absent,
\* and a matched screen phrase sets its flag ('with light screen' sets
\* isLightScreen as 'with Light Screen' does).
C6_FieldCaseInsensitive ==
  pc = "parsed" =>
    /\ parseField(LowerText(inputStr)) = parsed.fieldData
    /\ parseField(UpperText(inputStr)) = parsed.fieldData
    /\ parsed.fieldData.weather \in {Undefined} \cup {Some(w) : w \in WeatherNames}
    /\ parsed.fieldData.terrain \in {Undefined} \cup {Some(w) : w \in TerrainNames}
    /\ Contains(<<"w", "i", "t", "h", " ">> \o W_LightScreen, inputStr)
         => parsed.fieldData.defenderSide.isLightScreen

\* The working copy after the removals of the first n categories, in the
\* order weather, terrain, screens, Stealth Rock, Spikes, gravity.
WorkingCopy(n) ==
  CASE n = 0 -> inputStr
    [] n = 1 -> RemoveWeather(inputStr)
    [] n = 2 -> RemoveTerrain(RemoveWeather(inputStr))
    [] n = 3 -> RemoveScreens(RemoveTerrain(RemoveWeather(inputStr)))
    [] n = 4 -> RemoveSR(RemoveScreens(RemoveTerrain(RemoveWeather(inputStr))))
    [] n = 5 -> RemoveSpikes(RemoveSR(RemoveScreens(RemoveTerrain(
                  RemoveWeather(inputStr)))))
    [] n = 6 -> RemoveGravity(RemoveSpikes(RemoveSR(RemoveScreens(RemoveTerrain(
                  RemoveWeather(inputStr))))))

\* parseField's pattern of the n-th category.
FieldRe(n) ==
  CASE n = 1 -> FieldWeatherRe
    [] n = 2 -> FieldTerrainRe
    [] n = 3 -> FieldScreensRe
    [] n = 4 -> FieldSRRe
    [] n = 5 -> FieldSpikesRe
    [] n = 6 -> FieldGravityRe

\* C7: the removal uses parseField's patterns: for each category, text is
\* removed from the working copy exactly when parseField's pattern for the
\* category matches the input, so a category whose pattern matches nothing
\* has nothing removed.
C7_RemovalSamePatterns ==
  Handled =>
    \A n \in 1..6 :
      Match(FieldRe(n), TRUE, inputStr).found <=> WorkingCopy(n) # WorkingCopy(n - 1)

\* C8: the name parseSide returns holds no stat abbreviation (HP, Atk, Def,
\* SpA, SpD, Spe, in any letter case) once the stat-token strip, the ability
\* strip and the whitespace normalization have been applied.
C8_NoStatTokenInName ==
  pc = "parsed" =>
    \A side \in Sides : \A st \in StatAbbrevs : ~Contains(st, side.name)

\* C9: the cleaning step of parseSide is idempotent: applied to its own
\* output it gives the same text as applied once to the side text.
C9_CleaningIdempotent ==
  pc = "parsed" =>
    /\ CleanSide(CleanSide(attackerStr(inputStr))) = CleanSide(attackerStr(inputStr))
    /\ CleanSide(CleanSide(defenderStr(inputStr))) = CleanSide(defenderStr(inputStr))

\* A stat abbreviation occurs in s only inside a longer word.
OnlyInsideWords(s) ==
  \A st \in StatAbbrevs : \A i \in 1..Len(s) :
    StandsAt(st, s, i) =>
      \/ i > 1 /\ IsWordChar(s[i - 1])
      \/ i + Len(st) <= Len(s) /\ IsWordChar(s[i + Len(st)])

\* A side text that carries no EV number, no boost, no parenthesized group
\* and no stat abbreviation standing as a word, and at most one '@'.
PlainSide(s) ==
  /\ \A i \in 1..Len(s) : s[i] \notin Digits \cup {"+", "-", "(", ")"}
  /\ OnlyInsideWords(s)
  /\ Len(split(s, "@")) <= 2

\* The trimmed text left and right of '@' in a side text.
LeftOfAt(s)  == trim(split(s, "@")[1])
RightOfAt(s) == IF Len(split(s, "@")) = 2 THEN trim(split(s, "@")[2]) ELSE <<>>

\* C10: for a side text '<name> @ <item>' or '<name>' with no EV number, no
\* boost and no parenthesized group, the returned name is the trimmed text
\* left of '@' and the returned item the trimmed text right of '@', also
\* when a word holds the letters of a stat abbreviation (Espeon, Choice
\* Specs).
C10_NameAndItemUntouched ==
  (pc = "parsed" /\ PlainSide(attackerStr(inputStr))) =>
    /\ parsed.attacker.name = LeftOfAt(attackerStr(inputStr))
    /\ parsed.attacker.item = RightOfAt(attackerStr(inputStr))

\* C11: under any interleaving of fetchSetsData calls, an entry stored in
\* setsCache stays in the cache for the full 30 minutes after it was stored
\* (no eviction timer of an earlier fetch removes the entry of a later one
\* before that entry's own 30 minutes have elapsed), and a fetch that fails
\* leaves setsCache unchanged.
C11_EntriesLiveThirtyMinutes ==
  [][ /\ \A f \in DOMAIN setsCache :
           now < setsCache[f].at + CacheMinutes => f \in DOMAIN setsCache'
      /\ (\E c \in Calls : calls[c].at # "threw" /\ calls'[c].at = "threw")
           => setsCache' = setsCache ]_vars

====
